---- MODULE Spec2Model ----
(***************************************************************************)
(* A model of the qqwry IPDB reader (src/src/lib.rs): the header decode,   *)
(* the binary search over the index table, the mode-driven record decoder  *)
(* and the table iterator, over a byte-addressed file with a shared file   *)
(* cursor.  Offsets are 0-based as in the code; file[i + 1] is the byte at *)
(* offset i.  The two loops of the code that need not terminate            *)
(* (search_index, read_string) advance one iteration per step.             *)
(***************************************************************************)
EXTENDS Integers, Sequences, FiniteSets, TLC

VARIABLES
    file,        \* the bytes of the database file (never written)
    pc,          \* "closed" | "idle" | "search" | "searched" | "string"
    header,      \* IPDB.header: [start, end]
    position,    \* IPDB.position
    cursor,      \* the stream position of IPDB.file
    op,          \* the public call in progress: "none" | "find" | "iter_next"
    ip_num,      \* search_index: ip_num
    start,       \* search_index: start
    end,         \* search_index: end
    rec,         \* get_content: offset
    phase,       \* which read_string of get_content runs: "country" | "area"
    result,      \* read_string: result
    buf,         \* read_string: buf[0]
    country,     \* get_content: country
    area_base,   \* get_content: the fixed part of the area offset
    area_add,    \* get_content: whether country.len() is added to it
    ret,         \* the value the last completed public call returned
    hdr_read,    \* history: bytes file.read returned in IPDB::new
    iters,       \* history: completed iterations of the search_index loop
    search_res,  \* what search_index returned to find
    str_start,   \* history: the offset the running read_string started at
    visited,     \* history: one entry per iter_next call
    inited,      \* history: iter_init has been called
    walk_ok,     \* history: every iter_next followed iter_init and a true iter_has_next
    find_since,  \* history: find was called since the last iter_next
    interleaved  \* history: an iter_next after the first followed a find that moved the cursor

vars == <<file, pc, header, position, cursor, op, ip_num, start, end, rec, phase,
          result, buf, country, area_base, area_add, ret, hdr_read, iters,
          search_res, str_start, visited, inited, walk_ok, find_since,
          interleaved>>

(***************************************************************************)
(* Bounds of the model.                                                    *)
(***************************************************************************)
MaxEntries == 3      \* index entries of the generated tables
MaxCalls == 4        \* iter_next calls recorded per handle
MaxStr == 6          \* bytes a read_string accumulates before the model stops following it
MaxRegion == 5       \* free bytes of the record region in the decoder specification

INDEX_LEN == 7

\* the bytes of the buffer IPDB::new reads the header into
HEADER_LEN == 8

Min(a, b) == IF a < b THEN a ELSE b

(***************************************************************************)
(* The file: positioned reads into a zeroed buffer.  A read returns the    *)
(* bytes available (none at or past end of file) and moves the cursor by   *)
(* that many; the rest of the buffer keeps its zeros.                      *)
(***************************************************************************)
ReadAt(f, c, k) ==
    LET n == IF c >= Len(f) THEN 0 ELSE Min(k, Len(f) - c)
    IN  [buf |-> [i \in 1..k |-> IF i <= n THEN f[c + i] ELSE 0],
         n   |-> n,
         cur |-> c + n]

read_u32_le(b) == b[1] + 256 * b[2] + 65536 * b[3] + 16777216 * b[4]

array3u8tou32(data) == data[1] + 256 * data[2] + 65536 * data[3]

convert_ipv4_to_u32(ip) == ip[1] + 256 * ip[2] + 65536 * ip[3] + 16777216 * ip[4]

Header_decode(bytes) ==
    [start |-> read_u32_le(SubSeq(bytes, 1, 4)),
     end   |-> read_u32_le(SubSeq(bytes, 5, 8))]

get_middle_offset(s, e) ==
    LET records == ((e - s) \div INDEX_LEN) \div 2
    IN  s + records * INDEX_LEN

Mode_from(mode) == IF mode = 1 THEN "RediectMode1"
                   ELSE IF mode = 2 THEN "RediectMode2"
                   ELSE "Other"

read_mode(f, offset) ==
    LET r == ReadAt(f, offset, 1)
    IN  [mode |-> Mode_from(r.buf[1]), cur |-> r.cur]

read_u24(f, c) ==
    LET r == ReadAt(f, c, 3)
    IN  [val |-> array3u8tou32(r.buf), cur |-> r.cur]

read_ip(f, offset) ==
    LET r == ReadAt(f, offset, 4)
    IN  [ip |-> r.buf, cur |-> r.cur]

(***************************************************************************)
(* get_content up to its first read_string: which string is the country    *)
(* and where the area is looked for afterwards.  read_u24 reads at the     *)
(* cursor the preceding read_mode left.                                    *)
(***************************************************************************)
\* the 3 pointer bytes counted without the mode byte before them
Mode1RedirectAreaOffset_PointerOnly(country_offset) == country_offset + 3

Mode1RedirectAreaOffset(country_offset) == country_offset + 4

Mode1InlineAreaBase(country_offset) == country_offset + 1

InlineAreaBase(offset) == offset + 5

get_content_country(f, offset) ==
    LET mode == read_mode(f, offset + 4)
    IN  IF mode.mode = "RediectMode1" THEN
            LET country_offset == read_u24(f, mode.cur).val
                mode2 == read_mode(f, country_offset)
            IN  IF mode2.mode = "RediectMode2" THEN
                    [str_off   |-> read_u24(f, mode2.cur).val,
                     area_base |-> Mode1RedirectAreaOffset(country_offset),
                     area_add  |-> FALSE]
                ELSE
                    [str_off   |-> country_offset,
                     area_base |-> Mode1InlineAreaBase(country_offset),
                     area_add  |-> TRUE]
        ELSE IF mode.mode = "RediectMode2" THEN
            [str_off   |-> read_u24(f, mode.cur).val,
             area_base |-> InlineAreaBase(offset),
             area_add  |-> TRUE]
        ELSE
            [str_off   |-> offset + 4,
             area_base |-> InlineAreaBase(offset),
             area_add  |-> TRUE]

\* read_area up to its read_string: an error, or the offset the area string is at.
read_area(f, offset) ==
    LET mode == read_mode(f, offset)
    IN  IF mode.mode \in {"RediectMode1", "RediectMode2"} THEN
            LET area_offset == read_u24(f, mode.cur)
            IN  IF area_offset.val = 0
                THEN [kind |-> "err", off |-> offset + 1, cur |-> area_offset.cur]
                ELSE [kind |-> "str", off |-> area_offset.val, cur |-> area_offset.cur]
        ELSE [kind |-> "str", off |-> offset, cur |-> mode.cur]

\* the walk taken to end at the last entry instead of one past it
iter_has_next_value_AtEnd(pos, hdr) == pos # hdr.end

iter_has_next_value(pos, hdr) == pos # hdr.end + INDEX_LEN

\* the read taken from wherever the stream is
SeekIfMoved_NoSeek(stream_position, pos) == stream_position

\* iter_init / iter_next: seek to position unless the stream is already there.
SeekIfMoved(stream_position, pos) ==
    IF stream_position # pos THEN pos ELSE stream_position

\* position left where it was when the entry was read
iter_next_position_NotAdvanced(pos, n) == pos

iter_next_position(pos, n) == pos + n

(***************************************************************************)
(* Values returned to the caller.  The text decoder (GBK) is outside the   *)
(* engine: a Record carries the country and area byte sequences handed to  *)
(* it.                                                                     *)
(***************************************************************************)
Ret(kind, ip, c, a, val) ==
    [kind |-> kind, ip |-> ip, country |-> c, area |-> a, val |-> val]

NoRet == Ret("none", <<>>, <<>>, <<>>, 0)

NoSearch == [kind |-> "none", offset |-> 0]

(***************************************************************************)
(* The database files the model opens.  A generated file has the header at *)
(* 0, an index table of n entries at 8 with the addresses 2, 4, .., 2n,    *)
(* and a record region of four records after it; every entry points at one *)
(* of the four.                                                            *)
(***************************************************************************)
LE32(v) == <<v % 256, (v \div 256) % 256, (v \div 65536) % 256, (v \div 16777216) % 256>>

LE24(v) == <<v % 256, (v \div 256) % 256, (v \div 65536) % 256>>

TableStart == HEADER_LEN

RegionBase(n) == TableStart + INDEX_LEN * n

\* inline country "A" and area "B"
RecInline == <<10, 0, 0, 1, 65, 0, 66, 0>>

\* inline country "C", then an area redirect whose pointer is zero
RecBadArea == <<10, 0, 0, 2, 67, 0, 1, 0, 0, 0>>

\* mode 1 redirect to the strings of RecInline
RecRedirect(n) == <<10, 0, 0, 3, 1>> \o LE24(RegionBase(n) + 4)

\* inline country "D" with no terminator before the end of the file
RecUnterminated == <<10, 0, 0, 4, 68>>

Region(n) == RecInline \o RecBadArea \o RecRedirect(n) \o RecUnterminated

RecOffset(n, kind) ==
    RegionBase(n) + (CASE kind = 1 -> 0
                       [] kind = 2 -> Len(RecInline)
                       [] kind = 3 -> Len(RecInline) + Len(RecBadArea)
                       [] OTHER    -> Len(RecInline) + Len(RecBadArea) + Len(RecRedirect(n)))

EntryAddress(k) == 2 * k

RECURSIVE IndexTable(_, _, _)
IndexTable(n, kinds, k) ==
    IF k > n THEN <<>>
    ELSE LE32(EntryAddress(k)) \o LE24(RecOffset(n, kinds[k])) \o IndexTable(n, kinds, k + 1)

MkFile(n, kinds) ==
    LE32(TableStart) \o LE32(TableStart + INDEX_LEN * (n - 1))
        \o IndexTable(n, kinds, 1) \o Region(n)

\* every table of terminated records, and the tables with one unterminated record
GeneratedFiles ==
    UNION {{MkFile(n, kinds) : kinds \in [1..n -> 1..3]} : n \in 1..MaxEntries}
    \cup UNION {{MkFile(n, [k \in 1..n |-> IF k = j THEN 4 ELSE 1]) : j \in 1..n} :
                    n \in 1..MaxEntries}

\* a file cut inside its last index entry, and two files shorter than a header
TruncatedFiles ==
    {SubSeq(MkFile(n, [k \in 1..n |-> 1]), 1, TableStart + INDEX_LEN * (n - 1) + 3) :
        n \in 1..MaxEntries}

ShortFiles == {<<>>, <<0, 0, 0, 0, 7>>}

Files == GeneratedFiles \cup TruncatedFiles \cup ShortFiles

\* the addresses looked up: below, at, between and above the generated entries
Addresses ==
    {<<a, 0, 0, 0>> : a \in 1..(2 * MaxEntries + 1)} \cup {<<0, 1, 0, 0>>}

(***************************************************************************)
(* The state before IPDB::new.  The locals of a call hold their defaults   *)
(* while no call that owns them runs.                                      *)
(***************************************************************************)
NoSearchLocals ==
    /\ ip_num = 0
    /\ start = 0
    /\ end = 0
    /\ iters = 0
    /\ search_res = NoSearch

NoContentLocals ==
    /\ rec = 0
    /\ phase = "country"
    /\ result = <<>>
    /\ buf = 0
    /\ country = <<>>
    /\ area_base = 0
    /\ area_add = FALSE
    /\ str_start = 0

InitRest ==
    /\ pc = "closed"
    /\ header = [start |-> 0, end |-> 0]
    /\ position = 0
    /\ cursor = 0
    /\ op = "none"
    /\ NoSearchLocals
    /\ NoContentLocals
    /\ ret = NoRet
    /\ hdr_read = 0
    /\ visited = <<>>
    /\ inited = FALSE
    /\ walk_ok = TRUE
    /\ find_since = FALSE
    /\ interleaved = FALSE

Init == file \in Files /\ InitRest

search_locals == <<ip_num, start, end, iters, search_res>>

content_locals == <<rec, phase, result, buf, country, area_base, area_add, str_start>>

\* the locals of search_index go out of scope
DropSearchLocals ==
    /\ ip_num' = 0
    /\ start' = 0
    /\ end' = 0
    /\ iters' = 0
    /\ search_res' = NoSearch

\* the locals of get_content and read_string go out of scope
DropContentLocals ==
    /\ rec' = 0
    /\ phase' = "country"
    /\ result' = <<>>
    /\ buf' = 0
    /\ country' = <<>>
    /\ area_base' = 0
    /\ area_add' = FALSE
    /\ str_start' = 0

walk_history == <<visited, inited, walk_ok, find_since, interleaved>>

\* IPDB::new: read up to 8 bytes into a zeroed buffer and decode the header from the buffer.
New ==
    /\ pc = "closed"
    /\ LET r == ReadAt(file, 0, HEADER_LEN)
       IN  /\ header' = Header_decode(r.buf)
           /\ cursor' = r.cur
           /\ hdr_read' = r.n
    /\ position' = 0
    /\ pc' = "idle"
    /\ UNCHANGED <<file, op, ret>>
    /\ UNCHANGED search_locals
    /\ UNCHANGED content_locals
    /\ UNCHANGED walk_history

\* a public call returns r: its locals are gone
Return(r) ==
    /\ ret' = r
    /\ pc' = "idle"
    /\ op' = "none"
    /\ visited' = IF op = "iter_next"
                  THEN [visited EXCEPT ![Len(visited)].res =
                            IF r.kind = "record" THEN "ok" ELSE "err"]
                  ELSE visited
    /\ DropSearchLocals
    /\ DropContentLocals

\* get_content(offset) up to the seek of its first read_string
EnterContent(offset) ==
    LET plan == get_content_country(file, offset)
    IN  /\ rec' = offset
        /\ phase' = "country"
        /\ result' = <<>>
        /\ buf' = 0
        /\ country' = <<>>
        /\ area_base' = plan.area_base
        /\ area_add' = plan.area_add
        /\ str_start' = plan.str_off
        /\ cursor' = plan.str_off
        /\ pc' = "string"

\* find(ip): enter search_index.  end - start is computed in u64: a header with
\* start > end overflows, and no file of the model decodes to one.
Find(ip) ==
    /\ pc = "idle"
    /\ header.start <= header.end
    /\ op' = "find"
    /\ ret' = NoRet
    /\ ip_num' = convert_ipv4_to_u32(ip)
    /\ start' = header.start
    /\ end' = header.end
    /\ iters' = 0
    /\ search_res' = NoSearch
    /\ pc' = "search"
    /\ find_since' = TRUE
    /\ UNCHANGED <<file, header, position, cursor, hdr_read, visited, inited, walk_ok,
                   interleaved>>
    /\ UNCHANGED content_locals

\* one iteration of the loop of search_index
SearchStep ==
    /\ pc = "search"
    /\ LET mid == get_middle_offset(start, end)
           r == ReadAt(file, mid, INDEX_LEN)
           mid_ip == read_u32_le(SubSeq(r.buf, 1, 4))
       IN  /\ cursor' = r.cur
           /\ IF ip_num = mid_ip THEN
                  /\ search_res' = [kind |-> "found",
                                    offset |-> array3u8tou32(SubSeq(r.buf, 5, 7))]
                  /\ pc' = "searched"
                  /\ UNCHANGED <<start, end, iters>>
              ELSE IF end - start = INDEX_LEN THEN
                  /\ search_res' = [kind |-> "not_found", offset |-> 0]
                  /\ pc' = "searched"
                  /\ UNCHANGED <<start, end, iters>>
              ELSE
                  /\ IF ip_num > mid_ip
                     THEN start' = mid /\ end' = end
                     ELSE end' = mid /\ start' = start
                  /\ iters' = Min(iters + 1, MaxEntries + 3)
                  /\ UNCHANGED <<pc, search_res>>
    /\ UNCHANGED <<file, header, position, op, ip_num, ret, hdr_read>>
    /\ UNCHANGED content_locals
    /\ UNCHANGED walk_history

\* find after search_index returned: the error is passed on, an offset goes to get_content
FindSearched ==
    /\ pc = "searched"
    /\ IF search_res.kind = "found" THEN
           /\ EnterContent(search_res.offset)
           /\ DropSearchLocals
           /\ UNCHANGED <<op, ret, visited>>
       ELSE
           /\ Return(Ret("not_found", <<>>, <<>>, <<>>, 0))
           /\ UNCHANGED cursor
    /\ UNCHANGED <<file, header, position, hdr_read, inited, walk_ok, find_since,
                   interleaved>>

\* one iteration of the loop of read_string, and what get_content does when it ends
StringStep ==
    /\ pc = "string"
    /\ LET r == ReadAt(file, cursor, 1)
           b == IF r.n = 1 THEN r.buf[1] ELSE buf
       IN  IF b # 0 THEN
               /\ Len(result) < MaxStr
               /\ result' = Append(result, b)
               /\ buf' = b
               /\ cursor' = r.cur
               /\ UNCHANGED <<pc, op, ret, visited, rec, phase, country, area_base,
                              area_add, str_start>>
               /\ UNCHANGED search_locals
           ELSE IF phase = "country" THEN
               LET a == read_area(file, area_base + (IF area_add THEN Len(result) ELSE 0))
               IN  IF a.kind = "err" THEN
                       /\ cursor' = a.cur
                       /\ Return(Ret("corrupt_area", <<>>, <<>>, <<>>, a.off))
                   ELSE
                       /\ country' = result
                       /\ phase' = "area"
                       /\ result' = <<>>
                       /\ buf' = 0
                       /\ cursor' = a.off
                       /\ str_start' = a.off
                       /\ UNCHANGED <<pc, op, ret, visited, rec, area_base, area_add>>
                       /\ UNCHANGED search_locals
           ELSE
               LET i == read_ip(file, rec)
               IN  /\ cursor' = i.cur
                   /\ Return(Ret("record", i.ip, country, result, 0))
    /\ UNCHANGED <<file, header, position, hdr_read, inited, walk_ok, find_since,
                   interleaved>>

IterInit ==
    /\ pc = "idle"
    /\ position' = IF position = 0 THEN header.start ELSE position
    /\ cursor' = SeekIfMoved(cursor, position')
    /\ inited' = TRUE
    /\ ret' = Ret("unit", <<>>, <<>>, <<>>, 0)
    /\ UNCHANGED <<file, pc, header, op, hdr_read, visited, walk_ok, find_since,
                   interleaved>>
    /\ UNCHANGED search_locals
    /\ UNCHANGED content_locals

IterHasNext ==
    /\ pc = "idle"
    /\ ret' = Ret("bool", <<>>, <<>>, <<>>,
                  IF iter_has_next_value(position, header) THEN 1 ELSE 0)
    /\ UNCHANGED <<file, pc, header, position, cursor, op, hdr_read>>
    /\ UNCHANGED search_locals
    /\ UNCHANGED content_locals
    /\ UNCHANGED walk_history

\* iter_next up to the first read_string of get_content
IterNext ==
    /\ pc = "idle"
    /\ Len(visited) < MaxCalls
    /\ LET off == SeekIfMoved(cursor, position)
           r == ReadAt(file, off, INDEX_LEN)
       IN  /\ position' = iter_next_position(position, r.n)
           /\ visited' = Append(visited,
                                [pos |-> position, off |-> off, n |-> r.n,
                                 res |-> "running"])
           /\ EnterContent(array3u8tou32(SubSeq(r.buf, 5, 7)))
    /\ op' = "iter_next"
    /\ ret' = NoRet
    /\ walk_ok' = (walk_ok /\ inited /\ iter_has_next_value(position, header))
    /\ interleaved' = (interleaved \/ (visited # <<>> /\ find_since /\ cursor # position))
    /\ find_since' = FALSE
    /\ UNCHANGED <<file, header, hdr_read, inited>>
    /\ UNCHANGED search_locals

Next ==
    \/ New
    \/ \E ip \in Addresses : Find(ip)
    \/ SearchStep
    \/ FindSearched
    \/ StringStep
    \/ IterInit
    \/ IterHasNext
    \/ IterNext

Spec == Init /\ [][Next]_vars

(***************************************************************************)
(* The decoder specification: a one-entry table whose record region holds  *)
(* every combination of the bytes below, decoded through find and through  *)
(* the iterator (which, run past the table, also decodes at the offsets    *)
(* the region bytes spell).                                                *)
(***************************************************************************)
ContentPointer == RegionBase(1) + 8

ContentBytes == {0, 1, 2, ContentPointer}

ContentFiles ==
    {LE32(TableStart) \o LE32(TableStart) \o LE32(EntryAddress(1)) \o LE24(RegionBase(1))
        \o <<10, 0, 0, 1>> \o region : region \in [1..MaxRegion -> ContentBytes]}

InitContent == file \in ContentFiles /\ InitRest

NextContent ==
    \/ New
    \/ Find(<<EntryAddress(1), 0, 0, 0>>)
    \/ SearchStep
    \/ FindSearched
    \/ StringStep
    \/ IterInit
    \/ IterNext

SpecContent == InitContent /\ [][NextContent]_vars

(***************************************************************************)
(* What the file holds, read off its bytes at absolute offsets.            *)
(***************************************************************************)
ByteAt(off) == IF off < Len(file) THEN file[off + 1] ELSE 0

Pointer24At(off) == ByteAt(off) + 256 * ByteAt(off + 1) + 65536 * ByteAt(off + 2)

EntryCount == (header.end - header.start) \div INDEX_LEN + 1

\* the k-th index entry, k = 0 for the one at header.start
EntryAddr(k) ==
    LET off == header.start + INDEX_LEN * k
    IN  ByteAt(off) + 256 * ByteAt(off + 1) + 65536 * ByteAt(off + 2)
            + 16777216 * ByteAt(off + 3)

EntryPointer(k) == Pointer24At(header.start + INDEX_LEN * k + 4)

\* the header came from 8 file bytes, the table lies inside the file after the
\* header, and its addresses ascend strictly
WellFormed ==
    /\ pc # "closed"
    /\ hdr_read = HEADER_LEN
    /\ header.start >= HEADER_LEN
    /\ header.start <= header.end
    /\ (header.end - header.start) % INDEX_LEN = 0
    /\ header.end + INDEX_LEN <= Len(file)
    /\ \A k \in 1..(EntryCount - 1) : EntryAddr(k - 1) < EntryAddr(k)

RECURSIVE CeilLog2(_)
CeilLog2(n) == IF n <= 1 THEN 0 ELSE 1 + CeilLog2((n + 1) \div 2)

\* the index of the entry with the greatest address <= a (there is one)
FloorEntry(a) ==
    CHOOSE k \in 0..(EntryCount - 1) :
        /\ EntryAddr(k) <= a
        /\ \A j \in 0..(EntryCount - 1) : EntryAddr(j) <= a => j <= k

\* the bytes from off up to the first zero byte or the end of the file
RECURSIVE StringAt(_)
StringAt(off) ==
    IF off >= Len(file) \/ file[off + 1] = 0 THEN <<>>
    ELSE <<file[off + 1]>> \o StringAt(off + 1)

(***************************************************************************)
(* The index resolver.                                                     *)
(***************************************************************************)

\* C1: over a well-formed table, search_index for an address at or above the
\* first entry's returns the pointer of the entry with the greatest address
\* <= it (the range containing the address), not only on an exact match.
C1_RangeLookup ==
    (pc = "searched" /\ WellFormed /\ ip_num >= EntryAddr(0))
        => /\ search_res.kind = "found"
           /\ search_res.offset = EntryPointer(FloorEntry(ip_num))

\* C2: over a well-formed table, search_index for the address of any index
\* entry, the first and the last included, returns that entry's pointer.
C2_EveryEntryFound ==
    (pc = "searched" /\ WellFormed)
        => \A k \in 0..(EntryCount - 1) :
               EntryAddr(k) = ip_num
                   => search_res = [kind |-> "found", offset |-> EntryPointer(k)]

\* C3: over a well-formed table, a search for an address that no index entry
\* holds never returns an offset and converges to AddressNotFound: every
\* iteration either fails with AddressNotFound or leaves a strictly narrower
\* interval of at least one entry width.
C3_NoMatchFails ==
    [][(pc = "search" /\ WellFormed
            /\ \A k \in 0..(EntryCount - 1) : EntryAddr(k) # ip_num)
         => \/ pc' = "searched" /\ search_res'.kind = "not_found"
            \/ /\ pc' = "search"
               /\ end' - start' >= INDEX_LEN
               /\ end' - start' < end - start]_vars

\* C4: over a well-formed table the loop of search_index returns within
\* ceil(log2(entryCount)) + 1 iterations: while it runs, the iterations
\* completed number at most ceil(log2(entryCount)).
C4_SearchIterations ==
    (pc = "search" /\ WellFormed) => iters <= CeilLog2(EntryCount)

(***************************************************************************)
(* Construction.                                                           *)
(***************************************************************************)

\* C6: there is no handle whose header was decoded from fewer than 8 bytes
\* read from the file.
C6_NoHandleFromShortHeader == pc # "closed" => hdr_read >= HEADER_LEN

(***************************************************************************)
(* The record decoder.                                                     *)
(***************************************************************************)

\* C9: a read_string that reaches the end of the file stops: it never holds
\* more bytes than the file has from the offset it started at.
C9_StringStopsAtEndOfFile ==
    pc = "string"
        => Len(result) <= (IF str_start >= Len(file) THEN 0 ELSE Len(file) - str_start)

\* the mode table of the record decoder, at absolute offsets of the file
TableCountryOffset(r) ==
    IF ByteAt(r + 4) = 1 THEN
        LET p == Pointer24At(r + 5)
        IN  IF ByteAt(p) = 2 THEN Pointer24At(p + 1) ELSE p
    ELSE IF ByteAt(r + 4) = 2 THEN Pointer24At(r + 5)
    ELSE r + 4

TableAreaOrigin(r, len) ==
    IF ByteAt(r + 4) = 1 THEN
        LET p == Pointer24At(r + 5)
        IN  IF ByteAt(p) = 2 THEN p + 4 ELSE p + len + 1
    ELSE r + 5 + len

\* C8: get_content(r) takes the country from the string the mode table names
\* and looks for the area at the origin the table names: while the country is
\* read, the string read started at the table's country offset; while the
\* area is read, the country is the string at that offset and the area string
\* is the one read_area resolves from the table's origin (the origin itself,
\* or the non-zero pointer after a mode byte 1 or 2); a CorruptArea error
\* names the offset of a zero pointer after such a mode byte.
C8_ModeTable ==
    /\ (pc = "string" /\ phase = "country") => str_start = TableCountryOffset(rec)
    /\ (pc = "string" /\ phase = "area") =>
           /\ country = StringAt(TableCountryOffset(rec))
           /\ LET origin == TableAreaOrigin(rec, Len(country))
              IN  IF ByteAt(origin) \in {1, 2}
                  THEN Pointer24At(origin + 1) # 0 /\ str_start = Pointer24At(origin + 1)
                  ELSE str_start = origin
    /\ ret.kind = "corrupt_area" =>
           ByteAt(ret.val - 1) \in {1, 2} /\ Pointer24At(ret.val) = 0

\* find reads the area of a record whose mode 1 pointer leads to a mode 2 byte
C8_Witness ==
    /\ pc = "string"
    /\ phase = "area"
    /\ op = "find"
    /\ ByteAt(rec + 4) = 1
    /\ ByteAt(Pointer24At(rec + 5)) = 2
    /\ country # <<>>

(***************************************************************************)
(* The table iterator.                                                     *)
(***************************************************************************)
HasNext == iter_has_next_value(position, header)

\* the walk iter_init(); while iter_has_next() { iter_next() } so far
InWalk == WellFormed /\ inited /\ walk_ok

\* C5: over a well-formed file the walk makes exactly (end - start)/7 + 1
\* iter_next calls, one per index entry in table order: the k-th call reads
\* the 7 bytes of the k-th entry, position is start + 7 * calls, and
\* iter_has_next is true exactly while fewer calls than entries were made, so
\* that the walk ends with position = end + 7.
C5_IterationComplete ==
    InWalk =>
        /\ Len(visited) <= EntryCount
        /\ position = header.start + INDEX_LEN * Len(visited)
        /\ \A i \in 1..Len(visited) :
               /\ visited[i].off = header.start + INDEX_LEN * (i - 1)
               /\ visited[i].n = INDEX_LEN
        /\ HasNext <=> Len(visited) < EntryCount
        /\ ~HasNext => position = header.end + INDEX_LEN

\* a walk over a table of two or more entries ended, every call with a Record
C5_Witness ==
    /\ InWalk
    /\ pc = "idle"
    /\ EntryCount >= 2
    /\ Len(visited) = EntryCount
    /\ ~HasNext
    /\ \A i \in 1..Len(visited) : visited[i].res = "ok"

\* C7: whatever find calls run between the iterator's calls, every iter_next
\* reads the index entry at position, and position moves only by the bytes the
\* iter_next calls read: the entries visited are those of a walk without find.
C7_FindLeavesWalkAlone ==
    \A i \in 1..Len(visited) :
        /\ visited[i].off = visited[i].pos
        /\ i = 1 => visited[i].pos = (IF inited /\ walk_ok THEN header.start ELSE visited[i].pos)
        /\ i > 1 => visited[i].pos = visited[i - 1].pos + visited[i - 1].n
        /\ i = Len(visited) => position = visited[i].pos + visited[i].n

\* an iter_next after the first ran right after a find that had moved the cursor
C7_Witness ==
    /\ interleaved
    /\ pc = "idle"
    /\ Len(visited) >= 2
    /\ visited[Len(visited)].res = "ok"

\* C10: iter_next moves position past the entry before the record is decoded:
\* while the record is decoded position is already 7 past the entry read, a
\* call that failed is followed by a read of the next entry, never by the same
\* one, position stays in {start + 7k : 0 <= k <= entries}, and after as many
\* calls as entries, failed or not, iter_has_next is false.
C10_FailedEntrySkipped ==
    InWalk =>
        /\ \E k \in 0..EntryCount : position = header.start + INDEX_LEN * k
        /\ (op = "iter_next" /\ pc = "string") =>
               position = visited[Len(visited)].off + INDEX_LEN
        /\ \A i \in 1..Len(visited) :
               visited[i].res = "err" =>
                   /\ position >= visited[i].off + INDEX_LEN
                   /\ i < Len(visited) => visited[i + 1].off = visited[i].off + INDEX_LEN
        /\ Len(visited) = EntryCount => ~HasNext

\* a walk ended in which a call failed and the next call read the next entry
C10_Witness ==
    /\ InWalk
    /\ pc = "idle"
    /\ Len(visited) = EntryCount
    /\ ~HasNext
    /\ \E i \in 1..(Len(visited) - 1) :
           visited[i].res = "err" /\ visited[i + 1].res = "ok"

====
